---------------------------- MODULE Spec2Model ----------------------------
(***************************************************************************)
(* Model of Mod_Updater.py: one run of start_download (batch orchestrator) *)
(* with get_download_url_modrinth (resolver), download_mod (fetcher) and   *)
(* save_failed_downloads (failure reporter).  The run is cut into steps at *)
(* its blocking points: each network call and each time.sleep.             *)
(***************************************************************************)
EXTENDS Integers, Sequences, FiniteSets, TLC

\* ------------------------------------------------------------------ bounds
MaxMods == 2
MaxVersions == 2
\* Start clicks in the specification of the worker threads
MaxClicks == 2

\* ------------------------------------------------------- program constants
\* retries = 3 in download_mod
Retries == 3
\* ttk.Progressbar's maximum before a run sets it
DefaultMaximum == 100
BackoffLinear(attempt) == 2 * attempt
\* time.sleep(2 ** attempt) in download_mod
Backoff(attempt) == 2 ^ attempt

\* ------------------------------------------------------------- input data
Loaders == {"fabric", "forge"}
GameVersions == {"1.21.1", "1.20.1"}
\* The (mod_loader, mc_version) pairs a run is started with.
Configs == {<<"fabric", "1.21.1">>, <<"forge", "1.20.1">>}

\* urlparse(url) of the url strings the input may carry: (scheme, netloc)
\* parses = FALSE: urlparse raises ValueError (such as "http://[::1")
WellFormedUrl == [parses |-> TRUE, scheme |-> "https", netloc |-> "modrinth.com"]
NoSchemeUrl   == [parses |-> TRUE, scheme |-> "", netloc |-> "modrinth.com"]
NoHostUrl     == [parses |-> TRUE, scheme |-> "https", netloc |-> ""]
PlainTextUrl  == [parses |-> TRUE, scheme |-> "", netloc |-> ""]
UnparsedUrl   == [parses |-> FALSE, scheme |-> "", netloc |-> ""]
Urls == {WellFormedUrl, NoSchemeUrl, NoHostUrl, PlainTextUrl, UnparsedUrl}

\* The elements a JSON array may hold: a number, a string, or an object with
\* or without the keys "name" and "url".
Shapes ==
    {[type |-> "number", hasName |-> FALSE, hasUrl |-> FALSE, url |-> PlainTextUrl],
     [type |-> "string", hasName |-> FALSE, hasUrl |-> FALSE, url |-> PlainTextUrl]}
    \cup [type : {"object"}, hasName : {FALSE}, hasUrl : {TRUE}, url : {WellFormedUrl}]
    \cup [type : {"object"}, hasName : {TRUE}, hasUrl : {FALSE}, url : {PlainTextUrl}]
    \cup [type : {"object"}, hasName : {TRUE}, hasUrl : {TRUE}, url : Urls]

\* The name of the i-th element (names of one list are distinct).
NameOf(i) == <<"mod", i>>
Unknown == <<"Unknown", 0>>

\* Versions the index may list for a project.
VersionPool ==
    {[version_number |-> "1.0", loaders |-> {"fabric"}, game_versions |-> {"1.21.1"},
      files |-> <<"a.jar">>],
     [version_number |-> "2.0", loaders |-> {"forge"}, game_versions |-> {"1.21.1", "1.20.1"},
      files |-> <<"b.jar">>],
     [version_number |-> "3.0", loaders |-> {"fabric", "forge"}, game_versions |-> {"1.20.1"},
      files |-> <<"c.jar">>],
     [version_number |-> "4.0", loaders |-> {"fabric", "forge"}, game_versions |-> {"1.21.1"},
      files |-> <<>>],
     [version_number |-> "5.0", loaders |-> {"fabric", "forge"},
      game_versions |-> {"1.21.1", "1.20.1"}, files |-> <<"e1.jar", "e2.jar">>]}

VersionLists == UNION {[1..n -> VersionPool] : n \in 0..MaxVersions}

\* Search responses: the JSON body of GET /search, or a transport failure.
HitLists == {<<>>, <<"P1">>, <<"P2", "P1">>}
SearchResponses ==
    {[raises |-> TRUE, hasHits |-> FALSE, hits |-> <<>>],
     [raises |-> FALSE, hasHits |-> FALSE, hits |-> <<>>]}
    \cup [raises : {FALSE}, hasHits : {TRUE}, hits : HitLists]

\* What one attempt of download_mod can meet: the statement that raises and
\* the exception class, or none.  "get" is requests.get, "status" is
\* raise_for_status, "open" is open(save_path, "wb"), "stream" is the chunk
\* loop (iter_content raises a read timeout as ConnectionError and a broken
\* chunked body as a plain RequestException), "meta" is the sidecar's write.
AttemptOutcomes ==
    [stage : {"get"}, exc : {"ConnectionError", "Timeout", "RequestException"}]
    \cup [stage : {"status"}, exc : {"RequestException"}]
    \cup [stage : {"open"}, exc : {"OSError"}]
    \cup [stage : {"stream"}, exc : {"ConnectionError", "RequestException"}]
    \cup [stage : {"meta"}, exc : {"OSError"}]
    \cup [stage : {"none"}, exc : {"none"}]

\* A failed_downloads.log left by an earlier run.
StaleLog == <<<<"Mod: ", <<"old", 0>>, ", Reason: ", "stale">>>>
NoFile == [exists |-> FALSE, lines |-> <<>>]

VARIABLES
    json_kind,        \* "unreadable" | "object" | "list": what json_path holds
    mod_list,         \* the parsed list
    mod_loader,       \* parameter
    mc_version,       \* parameter
    pc,               \* position of the run
    index,            \* enumerate index of the current element (0-based)
    progress_max,     \* progress_bar["maximum"]
    progress_value,   \* progress_bar["value"]
    failed_downloads, \* list of {name, reason}
    failed_idx,       \* history: the list position each failure record is for
    messages,         \* lines given to log_message, in order
    log_file,         \* failed_downloads.log in save_directory
    files,            \* per list position: artifact and sidecar on disk
    project_id,       \* resolver local
    response,         \* resolver local: the body of the search response
    versions,         \* resolver local: the version list
    mod_url,          \* result of the resolver
    metadata,         \* result of the resolver
    dl_events,        \* history of the current download_mod call
    term,             \* history: per list position, the request's state
    paced,            \* history: positions after whose end the 1 s delay ran
    searches,         \* history: per position, search queries issued
    version_queries,  \* history: per position, version-list queries issued
    gets,             \* history: per position, GET attempts of download_mod
    old_log,          \* history: failed_downloads.log as the run found it
    workers           \* the threads start_download_threaded started (SpecThreads)

vars == <<json_kind, mod_list, mod_loader, mc_version, pc, index, progress_max,
          progress_value, failed_downloads, failed_idx, messages, log_file, files,
          project_id, response, versions, mod_url, metadata, dl_events, term, paced,
          searches, version_queries, gets, old_log, workers>>

\* ---------------------------------------------------------- pure helpers
\* is_valid_url: all([parsed.scheme, parsed.netloc])
IsValidUrl(url) == url.scheme # "" /\ url.netloc # ""

\* The condition of the loop body's if, for a JSON object:
\* "name" in mod and "url" in mod and is_valid_url(mod["url"])
EntryIsValidUrlOptional(m) == m.hasName /\ (m.hasUrl => IsValidUrl(m.url))
EntryIsValid(m) == m.hasName /\ m.hasUrl /\ IsValidUrl(m.url)

\* The same condition reaches is_valid_url and urlparse raises in it.
UrlRaises(m) == m.hasName /\ m.hasUrl /\ ~m.url.parses

\* mod.get("name", "Unknown") for the element at position i
NameOrUnknown(m, i) == IF m.hasName THEN NameOf(i) ELSE Unknown

\* for version in versions: if mod_loader in version["loaders"] and
\* mc_version in version["game_versions"]: the position of the first such
\* version at or after k, 0 when the loop ends without one.
RECURSIVE FirstCompatibleLoaderOnly(_, _, _, _)
FirstCompatibleLoaderOnly(vs, k, loader, gv) ==
    IF k > Len(vs) THEN 0
    ELSE IF loader \in vs[k].loaders THEN k
         ELSE FirstCompatibleLoaderOnly(vs, k + 1, loader, gv)

RECURSIVE FirstCompatible(_, _, _, _)
FirstCompatible(vs, k, loader, gv) ==
    IF k > Len(vs) THEN 0
    ELSE IF loader \in vs[k].loaders /\ gv \in vs[k].game_versions
         THEN k
         ELSE FirstCompatible(vs, k + 1, loader, gv)

NoMetadata == [version_number |-> "", mod_loader |-> "", minecraft_version |-> ""]
\* no search response held
NoResponse == [raises |-> FALSE, hasHits |-> FALSE, hits |-> <<>>]

\* The part of get_download_url_modrinth after the version list arrived.
\* tag "IndexError": version["files"][0] of an empty file list raises.
ScanVersions(vs, loader, gv) ==
    LET k == FirstCompatible(vs, 1, loader, gv) IN
    IF k = 0
    THEN [tag |-> "error", url |-> "", error |-> "No compatible version found.",
          metadata |-> NoMetadata]
    ELSE IF vs[k].files = <<>>
         THEN [tag |-> "IndexError", url |-> "", error |-> "", metadata |-> NoMetadata]
         ELSE [tag |-> "ok", url |-> vs[k].files[1], error |-> "",
               metadata |-> [version_number |-> vs[k].version_number,
                             mod_loader |-> loader, minecraft_version |-> gv]]

\* download_mod: the except clauses that sleep and continue
RetryableAll(exc) == exc \in {"ConnectionError", "Timeout", "RequestException"}
Retryable(exc) == exc \in {"ConnectionError", "Timeout"}

\* download_mod: the exception that leaves the function, as str(e)
DownloadError(exc) ==
    CASE exc = "ConnectionError" ->
           "Network connection error while trying to download the file."
      [] exc = "Timeout" -> "The request timed out while trying to download the file."
      [] exc = "RequestException" -> "An error occurred during the request: {e}"
      [] OTHER -> "OSError"

\* download_mod: the destination file after an attempt that got as far as stage
ArtifactAfter(stage, old) ==
    CASE stage \in {"get", "status", "open"} -> old
      [] stage = "stream" -> "partial"
      [] OTHER -> "full"

\* download_mod: the sidecar after an attempt that got as far as stage
SidecarAfter(stage, old) == IF stage = "none" THEN "full" ELSE old

\* if attempt < retries - 1: sleep and continue, in the handlers of
\* ConnectionError and Timeout
WillRetryThroughLast(exc, attempt) == Retryable(exc) /\ attempt < Retries
WillRetry(exc, attempt) == Retryable(exc) /\ attempt < Retries - 1

GetEvent(o) == [ev |-> "GET", secs |-> 0, stage |-> o.stage, exc |-> o.exc]
SleepEvent(n) == [ev |-> "sleep", secs |-> n, stage |-> "", exc |-> ""]
Gets(events) == {k \in DOMAIN events : events[k].ev = "GET"}
\* the loop variable attempt of download_mod: attempts already finished
Attempt(events) == Cardinality(Gets(events))

\* f"Mod: {failure['name']}, Reason: {failure['reason']}\n"
FormatFailure(failure) == <<"Mod: ", failure.name, ", Reason: ", failure.reason>>

RECURSIVE FormatAll(_)
FormatAll(failed) ==
    IF failed = <<>> THEN <<>>
    ELSE <<FormatFailure(Head(failed))>> \o FormatAll(Tail(failed))

\* save_failed_downloads: open(failed_log, "w") and one line per failure
SaveFailedDownloadsAppend(failed, old) ==
    [exists |-> TRUE, lines |-> old.lines \o FormatAll(failed)]
SaveFailedDownloads(failed, old) == [exists |-> TRUE, lines |-> FormatAll(failed)]

ProgressResetOnResolveFailure(i) == 0
\* progress_bar["value"] = index on the resolver's failure
ProgressAfterResolveFailure(i) == i
\* progress_bar["value"] = index + 1 after download_mod
ProgressAfterDownload(i) == i + 1

\* where the run goes after the outer except Exception logged "Error: ...":
\* on to the statements after the try
AfterErrorReturn == "done"
AfterError == "report"

\* if failed_downloads:
ShouldReportAlways(failed) == TRUE
ShouldReportInverted(failed) == failed = <<>>
ShouldReport(failed) == failed # <<>>

\* where the run goes after "Invalid JSON format": return
AfterInvalidFormatFallThrough == "report"
AfterInvalidFormat == "done"

\* A line given to log_message: its fixed text, the list position of the
\* element it names (0: none) and the error text it carries; the version
\* label of the "Downloading" line is left out.
Msg(kind, p, detail) == <<kind, p, detail>>

\* ------------------------------------------------------------------ Init
NoFiles == [artifact |-> "none", sidecar |-> "none"]

Init ==
    /\ json_kind \in {"unreadable", "object", "list"}
    /\ \E n \in 0..MaxMods : \E shapes \in [1..n -> Shapes] :
          /\ json_kind # "list" => n = 0
          /\ mod_list = shapes
    /\ \E c \in Configs : mod_loader = c[1] /\ mc_version = c[2]
    /\ pc = "start"
    /\ index = 0
    /\ progress_max = DefaultMaximum
    /\ progress_value = 0
    /\ failed_downloads = <<>>
    /\ failed_idx = <<>>
    /\ messages = <<>>
    /\ log_file \in {NoFile, [exists |-> TRUE, lines |-> StaleLog]}
    /\ old_log = log_file
    /\ workers = <<>>
    /\ gets = [i \in 1..MaxMods |-> 0]
    /\ files = [i \in 1..MaxMods |-> NoFiles]
    /\ project_id = ""
    /\ response = NoResponse
    /\ versions = <<>>
    /\ mod_url = ""
    /\ metadata = NoMetadata
    /\ dl_events = <<>>
    /\ term = [i \in 1..MaxMods |-> "pending"]
    /\ paced = {}
    /\ searches = [i \in 1..MaxMods |-> 0]
    /\ version_queries = [i \in 1..MaxMods |-> 0]

\* --------------------------------------------------------------- actions
\* What no step of the run changes: its parameters, the log as found, and
\* (in Spec, which follows the one run of one thread) the thread table.
inputs == <<json_kind, mod_list, mod_loader, mc_version, old_log, workers>>
resolver_locals == <<project_id, response, versions, mod_url, metadata>>
counters == <<searches, version_queries, gets>>

\* The element the loop is at, and its 1-based position.
posFromEnd == Len(mod_list) - index
pos == index + 1
mod == mod_list[pos]

\* open(json_path) or json.load raises: except Exception -> "Error: ..."
LoadFails ==
    /\ pc = "start" /\ json_kind = "unreadable"
    /\ messages' = Append(messages, Msg("Error: ", 0, "load"))
    /\ pc' = AfterError
    /\ UNCHANGED <<inputs, index, progress_max, progress_value, failed_downloads,
                   failed_idx, log_file, files, resolver_locals, dl_events, term,
                   paced, counters>>

\* not isinstance(mod_list, list): one message and return
LoadNotList ==
    /\ pc = "start" /\ json_kind = "object"
    /\ messages' = Append(messages, Msg("Invalid JSON format. Expecting a list of mods.", 0, ""))
    /\ pc' = AfterInvalidFormat
    /\ UNCHANGED <<inputs, index, progress_max, progress_value, failed_downloads,
                   failed_idx, log_file, files, resolver_locals, dl_events, term,
                   paced, counters>>

\* the list is loaded: progress_bar["maximum"] = len(mod_list), value = 0
LoadList ==
    /\ pc = "start" /\ json_kind = "list"
    /\ progress_max' = Len(mod_list)
    /\ progress_value' = 0
    /\ pc' = "loop"
    /\ UNCHANGED <<inputs, index, failed_downloads, failed_idx, messages, log_file,
                   files, resolver_locals, dl_events, term, paced, counters>>

\* the for loop is exhausted
LoopExit ==
    /\ pc = "loop" /\ index = Len(mod_list)
    /\ pc' = "report"
    /\ UNCHANGED <<inputs, index, progress_max, progress_value, failed_downloads,
                   failed_idx, messages, log_file, files, resolver_locals, dl_events,
                   term, paced, counters>>

\* element is a number: "name" in mod raises TypeError, caught by the outer
\* except Exception, which ends the loop
LoopNumber ==
    /\ pc = "loop" /\ index < Len(mod_list) /\ mod.type = "number"
    /\ messages' = Append(messages, Msg("Error: ", 0, "TypeError"))
    /\ pc' = AfterError
    /\ UNCHANGED <<inputs, index, progress_max, progress_value, failed_downloads,
                   failed_idx, log_file, files, resolver_locals, dl_events, term,
                   paced, counters>>

\* element is a string: "name" in mod is False, the else branch logs the
\* skip, then mod.get raises AttributeError, caught by the outer except
LoopString ==
    /\ pc = "loop" /\ index < Len(mod_list) /\ mod.type = "string"
    /\ messages' = messages \o
           <<Msg("Skipping invalid entry or malformed URL: ", pos, ""),
             Msg("Error: ", 0, "AttributeError")>>
    /\ pc' = AfterError
    /\ UNCHANGED <<inputs, index, progress_max, progress_value, failed_downloads,
                   failed_idx, log_file, files, resolver_locals, dl_events, term,
                   paced, counters>>

\* element is an object with both keys whose url makes urlparse raise
\* ValueError inside is_valid_url, caught by the outer except
LoopUrlRaises ==
    /\ pc = "loop" /\ index < Len(mod_list) /\ mod.type = "object"
    /\ UrlRaises(mod)
    /\ messages' = Append(messages, Msg("Error: ", 0, "ValueError"))
    /\ pc' = AfterError
    /\ UNCHANGED <<inputs, index, progress_max, progress_value, failed_downloads,
                   failed_idx, log_file, files, resolver_locals, dl_events, term,
                   paced, counters>>

\* else branch for an object: skip message and failure record; no progress
\* update and no sleep
LoopSkip ==
    /\ pc = "loop" /\ index < Len(mod_list) /\ mod.type = "object"
    /\ ~UrlRaises(mod)
    /\ ~EntryIsValid(mod)
    /\ messages' = Append(messages, Msg("Skipping invalid entry or malformed URL: ", pos, ""))
    /\ failed_downloads' = Append(failed_downloads,
           [name |-> NameOrUnknown(mod, pos),
            reason |-> "Missing required keys or invalid URL"])
    /\ failed_idx' = Append(failed_idx, pos)
    /\ term' = [term EXCEPT ![pos] = "skipped"]
    /\ index' = index + 1
    /\ pc' = "loop"
    /\ UNCHANGED <<inputs, progress_max, progress_value, log_file, files,
                   resolver_locals, dl_events, paced, counters>>

\* if branch: get_download_url_modrinth is called
LoopResolve ==
    /\ pc = "loop" /\ index < Len(mod_list) /\ mod.type = "object"
    /\ ~UrlRaises(mod)
    /\ EntryIsValid(mod)
    /\ term' = [term EXCEPT ![pos] = "resolving"]
    /\ pc' = "search"
    /\ UNCHANGED <<inputs, index, progress_max, progress_value, failed_downloads,
                   failed_idx, messages, log_file, files, resolver_locals, dl_events,
                   paced, counters>>

\* the resolver called again after an error
ResolveFailedRetry(error) ==
    /\ pc' = "search"
    /\ UNCHANGED <<inputs, index, progress_max, progress_value, failed_downloads,
                   failed_idx, messages, log_file, files, resolver_locals, dl_events,
                   term, paced>>

\* start_download after the resolver returned (None, error, None)
ResolveFailed(error) ==
    /\ messages' = Append(messages, Msg("Failed to resolve URL for ", pos, error))
    /\ failed_downloads' = Append(failed_downloads,
           [name |-> NameOf(pos), reason |-> error])
    /\ failed_idx' = Append(failed_idx, pos)
    /\ progress_value' = ProgressAfterResolveFailure(index)
    /\ term' = [term EXCEPT ![pos] = "resolve_failed"]
    /\ index' = index + 1
    /\ project_id' = ""
    /\ response' = NoResponse
    /\ versions' = <<>>
    /\ pc' = "loop"
    /\ UNCHANGED <<inputs, progress_max, log_file, files, mod_url, metadata,
                   dl_events, paced>>

\* an exception that get_download_url_modrinth does not catch leaves the loop
\* through the outer except Exception
ResolveRaised(exc) ==
    /\ messages' = Append(messages, Msg("Error: ", 0, exc))
    /\ project_id' = ""
    /\ response' = NoResponse
    /\ versions' = <<>>
    /\ pc' = AfterError
    /\ UNCHANGED <<inputs, index, progress_max, progress_value, failed_downloads,
                   failed_idx, log_file, files, mod_url, metadata, dl_events, term,
                   paced>>

\* GET /search: a transport failure is caught by the resolver's except and
\* returned as the error; otherwise the body is at hand
Search ==
    /\ pc = "search"
    /\ searches' = [searches EXCEPT ![pos] = @ + 1]
    /\ UNCHANGED <<version_queries, gets>>
    /\ \E r \in SearchResponses :
          IF r.raises THEN ResolveFailed("{search transport error}")
          ELSE /\ response' = r
               /\ pc' = "hits"
               /\ UNCHANGED <<inputs, index, progress_max, progress_value,
                              failed_downloads, failed_idx, messages, log_file, files,
                              project_id, versions, mod_url, metadata, dl_events, term,
                              paced>>

\* results = response.json()["hits"]; if not results: return; the first
\* hit's project_id and the second GET
Hits ==
    /\ pc = "hits"
    /\ UNCHANGED counters
    /\ IF ~response.hasHits THEN ResolveRaised("KeyError")
       ELSE IF response.hits = <<>> THEN ResolveFailed("No matching mod found.")
       ELSE /\ project_id' = response.hits[1]
            /\ pc' = "versions"
            /\ UNCHANGED <<inputs, index, progress_max, progress_value,
                           failed_downloads, failed_idx, messages, log_file, files,
                           response, versions, mod_url, metadata, dl_events, term,
                           paced>>

\* start_download after the resolver returned a url: the "Downloading" line
ResolveOk(res) ==
    /\ mod_url' = res.url
    /\ metadata' = res.metadata
    /\ messages' = Append(messages, Msg("Downloading ", pos, ""))
    /\ term' = [term EXCEPT ![pos] = "downloading"]
    /\ project_id' = ""
    /\ response' = NoResponse
    /\ versions' = <<>>
    /\ dl_events' = <<>>
    /\ pc' = "download"
    /\ UNCHANGED <<inputs, index, progress_max, progress_value, failed_downloads,
                   failed_idx, log_file, files, paced>>

\* GET /project/{project_id}/version: a transport failure is returned as
\* the error; otherwise the version list is at hand
Versions ==
    /\ pc = "versions"
    /\ version_queries' = [version_queries EXCEPT ![pos] = @ + 1]
    /\ UNCHANGED <<searches, gets>>
    /\ \/ ResolveFailed("{versions transport error}")
       \/ \E vs \in VersionLists :
             /\ versions' = vs
             /\ pc' = "scan"
             /\ UNCHANGED <<inputs, index, progress_max, progress_value,
                            failed_downloads, failed_idx, messages, log_file, files,
                            project_id, response, mod_url, metadata, dl_events, term,
                            paced>>

\* the scan of the versions and the resolver's return
Scan ==
    /\ pc = "scan"
    /\ UNCHANGED counters
    /\ LET res == ScanVersions(versions, mod_loader, mc_version) IN
       CASE res.tag = "error" -> ResolveFailed(res.error)
         [] res.tag = "IndexError" -> ResolveRaised("IndexError")
         [] OTHER -> ResolveOk(res)

\* one pass of the for loop of download_mod, and, when it leaves the
\* function, the rest of the try statement of start_download
Download ==
    /\ pc = "download"
    /\ \E o \in AttemptOutcomes :
          LET attempt == Attempt(dl_events) IN
          /\ dl_events' = Append(dl_events, GetEvent(o))
          /\ files' = [files EXCEPT ![pos] =
                 [artifact |-> ArtifactAfter(o.stage, @.artifact),
                  sidecar |-> SidecarAfter(o.stage, @.sidecar)]]
          /\ IF WillRetry(o.exc, attempt)
             THEN /\ pc' = "backoff"
                  /\ UNCHANGED <<messages, failed_downloads, failed_idx,
                                 progress_value, term>>
             ELSE /\ IF o.exc = "none"
                     THEN /\ messages' = Append(messages,
                                 Msg("Successfully downloaded ", pos, ""))
                          /\ term' = [term EXCEPT ![pos] = "done"]
                          /\ UNCHANGED <<failed_downloads, failed_idx>>
                     ELSE /\ messages' = Append(messages,
                                 Msg("Failed to download ", pos, DownloadError(o.exc)))
                          /\ failed_downloads' = Append(failed_downloads,
                                 [name |-> NameOf(pos), reason |-> DownloadError(o.exc)])
                          /\ failed_idx' = Append(failed_idx, pos)
                          /\ term' = [term EXCEPT ![pos] = "download_failed"]
                  /\ progress_value' = ProgressAfterDownload(index)
                  /\ pc' = "pace"
    /\ gets' = [gets EXCEPT ![pos] = @ + 1]
    /\ UNCHANGED <<inputs, index, progress_max, log_file, resolver_locals, paced,
                   searches, version_queries>>

\* time.sleep(2 ** attempt); continue
BackoffSleep ==
    /\ pc = "backoff"
    /\ dl_events' = Append(dl_events, SleepEvent(Backoff(Attempt(dl_events) - 1)))
    /\ pc' = "download"
    /\ UNCHANGED <<inputs, index, progress_max, progress_value, failed_downloads,
                   failed_idx, messages, log_file, files, resolver_locals, term, paced,
                   counters>>

\* time.sleep(1) and the step to the next element
Pace ==
    /\ pc = "pace"
    /\ paced' = paced \cup {pos}
    /\ index' = index + 1
    /\ dl_events' = <<>>
    /\ mod_url' = ""
    /\ metadata' = NoMetadata
    /\ pc' = "loop"
    /\ UNCHANGED <<inputs, progress_max, progress_value, failed_downloads, failed_idx,
                   messages, log_file, files, project_id, response, versions, term,
                   counters>>

\* if failed_downloads: save_failed_downloads and the line naming the log
\* (save_directory is taken to be writable: the log's open() succeeds)
Report ==
    /\ pc = "report"
    /\ IF ShouldReport(failed_downloads)
       THEN /\ log_file' = SaveFailedDownloads(failed_downloads, log_file)
            /\ messages' = Append(messages, Msg("Failed downloads logged to ", 0, ""))
       ELSE UNCHANGED <<log_file, messages>>
    /\ pc' = "summary"
    /\ UNCHANGED <<inputs, index, progress_max, progress_value, failed_downloads,
                   failed_idx, files, resolver_locals, dl_events, term, paced, counters>>

\* the elapsed-time line
Summary ==
    /\ pc = "summary"
    /\ messages' = Append(messages, Msg("Download process complete in ", 0, ""))
    /\ pc' = "done"
    /\ UNCHANGED <<inputs, index, progress_max, progress_value, failed_downloads,
                   failed_idx, log_file, files, resolver_locals, dl_events, term, paced,
                   counters>>

Next ==
    \/ LoadFails \/ LoadNotList \/ LoadList
    \/ LoopExit \/ LoopNumber \/ LoopString \/ LoopUrlRaises \/ LoopSkip \/ LoopResolve
    \/ Search \/ Hits \/ Versions \/ Scan \/ Download \/ BackoffSleep \/ Pace
    \/ Report \/ Summary

Spec == Init /\ [][Next]_vars

\* every network call returns or raises within its timeout and every sleep
\* ends, so the thread that runs start_download always takes its next step
SpecFair == Spec /\ WF_vars(Next)

\* ---------------------------------------------------------------- claims
Terminal == {"skipped", "resolve_failed", "download_failed", "done"}
Positions == 1..Len(mod_list)
\* The failure records appended for the element at position i.
FailuresFor(i) == Cardinality({k \in DOMAIN failed_idx : failed_idx[k] = i})
Returned == pc = "done"

\* C1: when start_download returns, every element of the list has exactly
\* one terminal outcome: artifact and sidecar saved and no FailureRecord for
\* it, or exactly one FailureRecord and no saved artifact.
C1_ExactlyOneOutcome ==
    (Returned /\ json_kind = "list") =>
        \A i \in Positions :
            \/ /\ files[i].artifact = "full" /\ files[i].sidecar = "full"
               /\ FailuresFor(i) = 0
            \/ /\ FailuresFor(i) = 1
               /\ files[i].artifact # "full"

\* C2: an error raised while one element is processed becomes a
\* FailureRecord for that element and the batch goes on: when the run
\* returns every element was processed, and each one that did not end Done
\* has its FailureRecord.
C2_ItemErrorsNeverAbort ==
    (Returned /\ json_kind = "list") =>
        \A i \in Positions :
            /\ term[i] \in Terminal
            /\ term[i] # "done" => FailuresFor(i) = 1

\* C3: progress_bar["value"] goes up by exactly one with each request's
\* terminal transition: between two requests it equals the number of requests
\* that ended, and when a run ends with all n requests ended, value =
\* maximum = n.
C3_ProgressCountsEveryRequest ==
    LET ended == Cardinality({i \in Positions : term[i] \in Terminal}) IN
    /\ pc = "loop" => progress_value = ended
    /\ (Returned /\ json_kind = "list" /\ ended = Len(mod_list)) =>
           /\ progress_value = Len(mod_list)
           /\ progress_max = Len(mod_list)
AllTransient(events) ==
    \A k \in Gets(events) : events[k].exc \in {"ConnectionError", "Timeout"}

\* C5: download_mod makes at most 3 GET attempts; when every attempt fails
\* with a connection error or a timeout it makes exactly 3, sleeps 1 s before
\* the second and 2 s before the third, does not sleep after the third, and
\* fails.
C5_ThreeAttemptsWithBackoff ==
    /\ Cardinality(Gets(dl_events)) <= 3
    /\ (pc = "pace" /\ AllTransient(dl_events)) =>
           /\ Len(dl_events) = 5
           /\ Gets(dl_events) = {1, 3, 5}
           /\ dl_events[2].ev = "sleep" /\ dl_events[2].secs = 1
           /\ dl_events[4].ev = "sleep" /\ dl_events[4].secs = 2
           /\ term[pos] = "download_failed"
           /\ failed_idx[Len(failed_idx)] = pos

\* C5 witness: a fetch ended after a mix of connection errors and timeouts.
C5_Witness ==
    /\ pc = "pace" /\ AllTransient(dl_events)
    /\ \E k \in Gets(dl_events) : dl_events[k].exc = "ConnectionError"
    /\ \E k \in Gets(dl_events) : dl_events[k].exc = "Timeout"

\* C6: an attempt that fails with a transport error that is neither a
\* connection error nor a timeout is the last event of the fetch: no sleep and
\* no GET follows it, so when it is the first attempt the fetch made exactly
\* one attempt.
C6_OtherErrorEndsFetch ==
    \A k \in Gets(dl_events) :
        dl_events[k].exc = "RequestException" =>
            /\ k = Len(dl_events)
            /\ pc = "pace"
            /\ term[pos] = "download_failed"

\* C6 witness: a fetch whose first attempt met a bad status has ended.
C6_Witness ==
    /\ pc = "pace" /\ Len(dl_events) = 1
    /\ dl_events[1].stage = "status" /\ dl_events[1].exc = "RequestException"

\* C7: download_mod leaves two files when it succeeds and none when it
\* fails.
C7_FailedFetchLeavesNoFiles ==
    \A i \in Positions :
        /\ term[i] = "done" => (files[i].artifact = "full" /\ files[i].sidecar = "full")
        /\ term[i] = "download_failed" =>
               (files[i].artifact = "none" /\ files[i].sidecar = "none")

\* C8: the 1 s pacing delay ran after every request that ended, so the
\* resolver is never called for a request whose predecessor had none.
C8_PacingAfterEveryRequest ==
    /\ \A i \in Positions : (i <= index /\ term[i] \in Terminal) => i \in paced
    /\ (pc = "search" /\ index > 0) => index \in paced

C10_NotAListAbortsAtOnce ==
    json_kind = "object" =>
        /\ pc \in {"start", "done"}
        /\ \A i \in 1..MaxMods :
               /\ searches[i] = 0 /\ version_queries[i] = 0 /\ gets[i] = 0
               /\ files[i] = [artifact |-> "none", sidecar |-> "none"]
        /\ log_file = old_log
        /\ progress_max = 100 /\ progress_value = 0
        /\ Len(messages) = (IF pc = "start" THEN 0 ELSE 1)

\* C10 witness: such a run has returned.
C10_Witness ==
    /\ json_kind = "object" /\ Returned
    /\ messages = <<<<"Invalid JSON format. Expecting a list of mods.", 0, "">>>>

\* C11: when the input file cannot be opened or parsed the run processes no
\* element, writes no file, and emits exactly one message.
C11_UnreadableInputOneMessage ==
    json_kind = "unreadable" =>
        /\ \A i \in 1..MaxMods :
               /\ term[i] = "pending"
               /\ searches[i] = 0 /\ version_queries[i] = 0 /\ gets[i] = 0
               /\ files[i] = [artifact |-> "none", sidecar |-> "none"]
        /\ log_file = old_log
        /\ Len(messages) <= 1
        /\ Returned => Len(messages) = 1

\* The messages that name an element, and the positions they name, in order.
RECURSIVE NamedPositions(_)
NamedPositions(msgs) ==
    IF msgs = <<>> THEN <<>>
    ELSE IF Head(msgs)[2] = 0 THEN NamedPositions(Tail(msgs))
         ELSE <<Head(msgs)[2]>> \o NamedPositions(Tail(msgs))

NonDecreasing(seq) == \A k, l \in DOMAIN seq : k < l => seq[k] <= seq[l]

\* C12: requests are processed in input order, one at a time: a request has
\* left Pending only when every earlier one has ended, at most one request is
\* between Pending and its end, and the messages, the progress value and the
\* FailureRecords follow the input order.
C12_InputOrderOneAtATime ==
    /\ \A i, j \in Positions :
           (i < j /\ term[j] # "pending") => term[i] \in {"skipped", "resolve_failed",
                                                          "download_failed", "done"}
    /\ Cardinality({i \in Positions : term[i] \in {"resolving", "downloading"}}) <= 1
    /\ NonDecreasing(NamedPositions(messages))
    /\ NonDecreasing(failed_idx)
    /\ \A i \in Positions : term[i] = "pending" => progress_value < i

\* C12 witness: the second request is being fetched after the first one
\* ended with a FailureRecord and both have messages.
C12_Witness ==
    /\ Len(mod_list) >= 2
    /\ term[1] = "resolve_failed" /\ term[2] = "downloading"
    /\ NamedPositions(messages) = <<1, 2>>

\* The versions of vs that list the requested loader and game version.
CompatiblePositions(vs) ==
    {k \in DOMAIN vs : mod_loader \in vs[k].loaders /\ mc_version \in vs[k].game_versions}

\* C13: the resolver returns "No matching mod found." for an empty search
\* result; otherwise it queries the first hit's project and returns the first
\* file url and the version number of the first version, in the service's
\* order, that lists both the loader and the game version, and
\* "No compatible version found." when there is none.
C13_ResolverResult ==
    [][/\ (pc = "hits" /\ response.hasHits /\ response.hits = <<>>) =>
              /\ pc' = "loop"
              /\ term'[pos] = "resolve_failed"
              /\ failed_downloads' = Append(failed_downloads,
                     [name |-> NameOf(pos), reason |-> "No matching mod found."])
              /\ version_queries' = version_queries
       /\ (pc = "hits" /\ response.hasHits /\ response.hits # <<>>) =>
              /\ pc' = "versions"
              /\ project_id' = Head(response.hits)
       /\ (pc = "scan" /\ CompatiblePositions(versions) = {}) =>
              /\ pc' = "loop"
              /\ term'[pos] = "resolve_failed"
              /\ failed_downloads' = Append(failed_downloads,
                     [name |-> NameOf(pos), reason |-> "No compatible version found."])
       /\ (pc = "scan" /\ CompatiblePositions(versions) # {}) =>
              LET first == CHOOSE k \in CompatiblePositions(versions) :
                               \A l \in CompatiblePositions(versions) : k <= l IN
              versions[first].files # <<>> =>
                  /\ pc' = "download"
                  /\ mod_url' = Head(versions[first].files)
                  /\ metadata'.version_number = versions[first].version_number
      ]_vars

\* C13 witness: the resolver returned the first of the two files of version
\* 5.0.
C13_Witness ==
    /\ pc = "download" /\ dl_events = <<>>
    /\ mod_url = "e1.jar" /\ metadata.version_number = "5.0"

\* ------------------------------------------------- worker threads
\* start_download_threaded starts one daemon thread per click of Start; each
\* thread runs start_download on the same progress bar, log area and save
\* directory.  Here each thread's run is followed one loop iteration at a
\* time: its own position, index and failure list are in workers[t]; the
\* progress bar, the messages and the log file are the shared ones.
ThreadShapes ==
    {[type |-> "object", hasName |-> TRUE, hasUrl |-> FALSE, url |-> PlainTextUrl],
     [type |-> "object", hasName |-> TRUE, hasUrl |-> TRUE, url |-> WellFormedUrl]}

\* How one iteration over a valid element can end.
IterationOutcomes == {"resolve_failed", "download_failed", "done"}

run_state == <<pc, index, failed_downloads, failed_idx, files, resolver_locals,
               dl_events, term, paced, counters>>

InitThreads ==
    /\ json_kind = "list"
    /\ \E n \in 1..MaxMods : mod_list \in [1..n -> ThreadShapes]
    /\ mod_loader = "fabric" /\ mc_version = "1.21.1"
    /\ pc = "start"
    /\ index = 0
    /\ progress_max = DefaultMaximum
    /\ progress_value = 0
    /\ failed_downloads = <<>>
    /\ failed_idx = <<>>
    /\ messages = <<>>
    /\ log_file = NoFile
    /\ old_log = log_file
    /\ workers = <<>>
    /\ gets = [i \in 1..MaxMods |-> 0]
    /\ files = [i \in 1..MaxMods |-> NoFiles]
    /\ project_id = ""
    /\ response = NoResponse
    /\ versions = <<>>
    /\ mod_url = ""
    /\ metadata = NoMetadata
    /\ dl_events = <<>>
    /\ term = [i \in 1..MaxMods |-> "pending"]
    /\ paced = {}
    /\ searches = [i \in 1..MaxMods |-> 0]
    /\ version_queries = [i \in 1..MaxMods |-> 0]

\* thread = threading.Thread(target=thread_target, daemon=True);
\* thread.start(): nothing looks at the threads already running
StartDownloadThreaded ==
    /\ Len(workers) < MaxClicks
    /\ workers' = Append(workers, [pc |-> "start", index |-> 0, failed |-> <<>>])
    /\ UNCHANGED <<json_kind, mod_list, mod_loader, mc_version, old_log, run_state,
                   progress_max, progress_value, messages, log_file>>

\* thread t: the list is loaded and the progress bar set
WorkerLoad(t) ==
    /\ workers[t].pc = "start"
    /\ progress_max' = Len(mod_list)
    /\ progress_value' = 0
    /\ workers' = [workers EXCEPT ![t].pc = "loop"]
    /\ UNCHANGED <<json_kind, mod_list, mod_loader, mc_version, old_log, run_state,
                   messages, log_file>>

\* thread t: one iteration of the for loop
WorkerItem(t) ==
    LET w == workers[t]
        p == w.index + 1
        m == mod_list[p] IN
    /\ w.pc = "loop" /\ w.index < Len(mod_list)
    /\ IF ~EntryIsValid(m)
       THEN /\ messages' = Append(messages,
                   Msg("Skipping invalid entry or malformed URL: ", p, ""))
            /\ workers' = [workers EXCEPT ![t] =
                   [pc |-> "loop", index |-> w.index + 1,
                    failed |-> Append(w.failed,
                        [name |-> NameOrUnknown(m, p),
                         reason |-> "Missing required keys or invalid URL"])]]
            /\ UNCHANGED progress_value
       ELSE \E o \in IterationOutcomes :
            CASE o = "resolve_failed" ->
                   /\ messages' = Append(messages,
                          Msg("Failed to resolve URL for ", p, "No matching mod found."))
                   /\ progress_value' = ProgressAfterResolveFailure(w.index)
                   /\ workers' = [workers EXCEPT ![t] =
                          [pc |-> "loop", index |-> w.index + 1,
                           failed |-> Append(w.failed,
                               [name |-> NameOf(p), reason |-> "No matching mod found."])]]
              [] o = "download_failed" ->
                   /\ messages' = messages \o
                          <<Msg("Downloading ", p, ""),
                            Msg("Failed to download ", p, DownloadError("RequestException"))>>
                   /\ progress_value' = ProgressAfterDownload(w.index)
                   /\ workers' = [workers EXCEPT ![t] =
                          [pc |-> "loop", index |-> w.index + 1,
                           failed |-> Append(w.failed,
                               [name |-> NameOf(p),
                                reason |-> DownloadError("RequestException")])]]
              [] OTHER ->
                   /\ messages' = messages \o
                          <<Msg("Downloading ", p, ""),
                            Msg("Successfully downloaded ", p, "")>>
                   /\ progress_value' = ProgressAfterDownload(w.index)
                   /\ workers' = [workers EXCEPT ![t] =
                          [pc |-> "loop", index |-> w.index + 1, failed |-> w.failed]]
    /\ UNCHANGED <<json_kind, mod_list, mod_loader, mc_version, old_log, run_state,
                   progress_max, log_file>>

\* thread t: the loop is over; the failure log and the summary line
WorkerReport(t) ==
    LET w == workers[t] IN
    /\ w.pc = "loop" /\ w.index = Len(mod_list)
    /\ IF ShouldReport(w.failed)
       THEN /\ log_file' = SaveFailedDownloads(w.failed, log_file)
            /\ messages' = messages \o
                   <<Msg("Failed downloads logged to ", 0, ""),
                     Msg("Download process complete in ", 0, "")>>
       ELSE /\ messages' = Append(messages, Msg("Download process complete in ", 0, ""))
            /\ UNCHANGED log_file
    /\ workers' = [workers EXCEPT ![t].pc = "done"]
    /\ UNCHANGED <<json_kind, mod_list, mod_loader, mc_version, old_log, run_state,
                   progress_max, progress_value>>

NextThreads ==
    \/ StartDownloadThreaded
    \/ \E t \in DOMAIN workers : WorkerLoad(t)
    \/ \E t \in DOMAIN workers : WorkerItem(t)
    \/ \E t \in DOMAIN workers : WorkerReport(t)

SpecThreads == InitThreads /\ [][NextThreads]_vars

\* C14: for any sequence of Start clicks at most one execution of
\* start_download is active at a time.
C14_SingleWorker ==
    Cardinality({t \in DOMAIN workers : workers[t].pc # "done"}) <= 1

\* C15: during one run progress_bar["value"] never goes down from one update
\* to the next, and progress_bar["maximum"], once set to the length of the
\* list, stays.
C15_ProgressMonotone ==
    [][/\ pc # "start" =>
              /\ progress_value' >= progress_value
              /\ progress_max' = progress_max
       /\ (json_kind = "list" /\ pc' # "start") => progress_max' = Len(mod_list)
      ]_vars

\* C15 witness: a resolution failure followed a download and left the value
\* where the download had put it.
C15_Witness ==
    /\ Len(mod_list) = 2
    /\ term[1] = "download_failed" /\ term[2] = "resolve_failed"
    /\ progress_value = 1 /\ progress_max = 2

SummaryLine == <<"Download process complete in ", 0, "">>
LogPathLine == <<"Failed downloads logged to ", 0, "">>
Occurrences(msgs, line) == Cardinality({k \in DOMAIN msgs : msgs[k] = line})

C17_ResolverOncePerRequest ==
    [][/\ \A i \in Positions :
              /\ searches'[i] <= 1
              /\ version_queries'[i] <= 1
              /\ version_queries'[i] <= searches'[i]
              /\ term'[i] = "resolve_failed" => gets'[i] = 0
       /\ (pc = "loop" /\ pc' = "search") =>
              /\ searches[pos] = 0
              /\ version_queries[pos] = 0
       /\ (pc = "search" /\ pc' # "hits") =>
              /\ pc' = "loop" /\ index' = index + 1
              /\ searches'[pos] = 1 /\ version_queries'[pos] = 0
              /\ term'[pos] = "resolve_failed"
              /\ failed_downloads' = Append(failed_downloads,
                     [name |-> NameOf(pos), reason |-> "{search transport error}"])
       /\ (pc = "versions" /\ pc' # "scan") =>
              /\ pc' = "loop" /\ index' = index + 1
              /\ searches'[pos] = 1 /\ version_queries'[pos] = 1
              /\ term'[pos] = "resolve_failed"
              /\ failed_downloads' = Append(failed_downloads,
                     [name |-> NameOf(pos), reason |-> "{versions transport error}"])
      ]_vars

\* C17 witness: the run went on to the second element after the version-list
\* query of the first failed in transport, having made one query of each kind
\* and no fetch.
C17_Witness ==
    /\ index = 1 /\ pc = "loop"
    /\ term[1] = "resolve_failed"
    /\ failed_downloads = <<[name |-> NameOf(1), reason |-> "{versions transport error}"]>>
    /\ searches[1] = 1 /\ version_queries[1] = 1 /\ gets[1] = 0

Sleeps(events) == {k \in DOMAIN events : events[k].ev = "sleep"}

CutShort == \E k \in DOMAIN messages : messages[k][1] = "Error: "

=============================================================================
